---- MODULE Spec2Model ----
(***************************************************************************)
(* A model of api/weather.js: the request handler that fetches the         *)
(* OpenWeatherMap one-call document, scores it and answers with the        *)
(* dashboard payload.                                                      *)
(*                                                                         *)
(* Units.  Wind speeds and temperatures are fixed-point numbers with one   *)
(* decimal: the model value 459 is 45.9 (mph or degrees F), so every       *)
(* threshold of the source appears multiplied by ten.  Epoch values are    *)
(* seconds (dt, timezone_offset) and milliseconds (chart timestamps), as   *)
(* in the source.  Date#getHours and Date#getMinutes read the clock of the *)
(* zone the runtime runs in; the model takes that zone to be UTC, which is *)
(* what the serverless runtime this api/ handler is written for uses.      *)
(*                                                                         *)
(* Indices.  i and the members of tested are JavaScript indices            *)
(* (from 0); the record at JavaScript index k is data.hourly[k + 1] here.  *)
(***************************************************************************)
EXTENDS Integers, Sequences, FiniteSets, TLC

VARIABLES
    apiKey,          \* TRUE iff process.env.OPEN_WEATHER_MAP_API_KEY is set
    upstream,        \* what the provider does: "resolves", "fetchRejects", "jsonRejects"
    payload,         \* the document response.json() resolves to
    now,             \* the wall clock (epoch ms) read by new Date()
    pc,              \* position of the handler
    fetchCount,      \* number of calls of fetch made so far
    data,            \* the handler's local: the parsed document
    currentBft, currentOverallScore, currentWindScore, currentTempScore,
    overallData, windData, tempData,
    calmStart,       \* <<>> is null, <<dt>> a start
    calmCandidate,   \* <<>> is null, <<hourData>> a candidate
    calmCount,
    i,               \* loop index of the calm-period scan
    tested,          \* history: indices of the candidates checked against the window
    res,             \* <<>> before the response, else [status, body]
    mph, bft,        \* the wind sweep: a speed and its class
    temp, tempScore  \* the temperature sweep: a temperature and its score

hvars == <<apiKey, upstream, payload, now, pc, fetchCount, data, currentBft,
           currentOverallScore, currentWindScore, currentTempScore, overallData,
           windData, tempData, calmStart, calmCandidate, calmCount, i, tested, res>>
svars == <<mph, bft, temp, tempScore>>
vars == <<hvars, svars>>

Min(a, b) == IF a <= b THEN a ELSE b

(***************************************************************************)
(* Scoring functions                                                       *)
(***************************************************************************)
\* getTempScore with the upper bands closed on the wrong side
getTempScoreShifted(t) ==
    IF t >= 750 /\ t < 850 THEN 5
    ELSE IF (t >= 700 /\ t < 750) \/ (t >= 850 /\ t <= 900) THEN 4
    ELSE IF (t >= 650 /\ t < 700) \/ (t > 900 /\ t <= 950) THEN 3
    ELSE IF (t >= 600 /\ t < 650) \/ (t > 950 /\ t <= 1000) THEN 2
    ELSE 1

getTempScore(t) ==
    IF t >= 750 /\ t <= 850 THEN 5
    ELSE IF (t >= 700 /\ t < 750) \/ (t > 850 /\ t <= 900) THEN 4
    ELSE IF (t >= 650 /\ t < 700) \/ (t > 900 /\ t <= 950) THEN 3
    ELSE IF (t >= 600 /\ t < 650) \/ (t > 950 /\ t <= 1000) THEN 2
    ELSE 1

\* getWindScore with the step from 5 to 3 smoothed
getWindScoreSmooth(windBFT) ==
    IF windBFT < 3 THEN 5
    ELSE IF windBFT = 3 THEN 4
    ELSE IF windBFT = 4 THEN 2
    ELSE 1

getWindScore(windBFT) ==
    IF windBFT < 3 THEN 5
    ELSE IF windBFT = 3 THEN 3
    ELSE IF windBFT = 4 THEN 2
    ELSE 1

\* getOverallScore taking the larger score
getOverallScoreMax(t, windBFT) ==
    IF getTempScore(t) >= getWindScore(windBFT) THEN getTempScore(t)
    ELSE getWindScore(windBFT)

getOverallScore(t, windBFT) == Min(getTempScore(t), getWindScore(windBFT))

\* Math.round(x) is floor(x + 1/2); for x = m/50 (m tenths of mph, over 5)
\* that is floor((m + 25) / 50).
RoundFifth(m) == (m + 25) \div 50

\* convertMphToBft with Math.floor in place of Math.round
convertMphToBftFloor(m) ==
    IF m < 10 THEN 0
    ELSE IF m < 40 THEN 1
    ELSE IF m < 80 THEN 2
    ELSE IF m < 130 THEN 3
    ELSE IF m < 180 THEN 4
    ELSE IF m < 240 THEN 5
    ELSE IF m < 310 THEN 6
    ELSE IF m < 380 THEN 7
    ELSE IF m < 460 THEN 8
    ELSE m \div 50

convertMphToBft(m) ==
    IF m < 10 THEN 0
    ELSE IF m < 40 THEN 1
    ELSE IF m < 80 THEN 2
    ELSE IF m < 130 THEN 3
    ELSE IF m < 180 THEN 4
    ELSE IF m < 240 THEN 5
    ELSE IF m < 310 THEN 6
    ELSE IF m < 380 THEN 7
    ELSE IF m < 460 THEN 8
    ELSE RoundFifth(m)

\* Math.round of a temperature in tenths, to whole degrees.
RoundDeg(t) == (t + 5) \div 10

(***************************************************************************)
(* Date helpers (runtime zone UTC)                                         *)
(***************************************************************************)
getHours(ms) == (ms \div 3600000) % 24
getMinutes(ms) == (ms \div 60000) % 60
\* Date#setMinutes(0, 0, 0) followed by getTime()
setMinutesZero(ms) == ms - (ms % 3600000)

formatTime(ms) ==
    LET h24 == getHours(ms)
        minutes == getMinutes(ms)
        ampm == IF h24 >= 12 THEN "pm" ELSE "am"
        h12 == IF h24 % 12 = 0 THEN 12 ELSE h24 % 12
        minutesStr == IF minutes < 10 THEN "0" \o ToString(minutes) ELSE ToString(minutes)
    IN  ToString(h12) \o ":" \o minutesStr \o ampm

\* toLocaleTimeString('en-US', {timeZone: 'America/Chicago', hour: 'numeric',
\* minute: '2-digit', hour12: true}); the modelled instants lie in January,
\* when America/Chicago is UTC-6.
formatCentralTime(ms) ==
    LET local == ms - 6 * 3600000
        h24 == getHours(local)
        minutes == getMinutes(local)
        h12 == IF h24 % 12 = 0 THEN 12 ELSE h24 % 12
        minutesStr == IF minutes < 10 THEN "0" \o ToString(minutes) ELSE ToString(minutes)
    IN  ToString(h12) \o ":" \o minutesStr \o (IF h24 >= 12 THEN " PM" ELSE " AM")

(***************************************************************************)
(* The upstream documents the handler is run against                       *)
(***************************************************************************)
MaxHourly == 38      \* longest hourly sequence
MaxShort == 5        \* longest hourly sequence of the scoring runs
MaxProfile == 15     \* number of score profiles, less one

BaseDt == 24 * 3600                     \* 1970-01-02T00:00:00Z
Offsets == {0 - 21600, 19800}           \* timezone_offset: UTC-6 and UTC+5:30
Null == [null |-> TRUE]                 \* JSON null
IsNull(v) == DOMAIN v = {"null"}
ErrorBody == [cod |-> 401, message |-> "Invalid API key"]

TempCycle == <<599, 600, 649, 650, 699, 700, 749, 750,
               850, 851, 900, 901, 950, 951, 1000, 1001>>
CalmCycle == <<0, 9, 10, 39, 40, 79>>                          \* classes 0..2
WindyCycle == <<80, 460, 130, 475, 180, 129, 620, 179, 459, 474>>  \* classes 3..12
Pick(cycle, k) == cycle[(k % Len(cycle)) + 1]

\* n hourly records from hour h0 of the base day on, one per hour; the record
\* at index k is calm (class < 3) iff k is in calm.
Hourly(n, h0, calm, p) ==
    [k \in 1..n |->
        [dt |-> BaseDt + 3600 * (h0 + k - 1),
         feels_like |-> Pick(TempCycle, p + k),
         wind_speed |-> IF (k - 1) \in calm THEN Pick(CalmCycle, p + k)
                        ELSE Pick(WindyCycle, p + k)]]

Current(h0, cm, p) ==
    [dt |-> BaseDt + 3600 * h0 + cm,
     feels_like |-> Pick(TempCycle, p),
     wind_speed |-> IF p % 2 = 0 THEN Pick(CalmCycle, p \div 2)
                    ELSE Pick(WindyCycle, p \div 2)]

Document(n, h0, off, cm, calm, p) ==
    [current |-> Current(h0, cm, p),
     hourly |-> Hourly(n, h0, calm, p),
     timezone_offset |-> off]

\* The hourly sequence with JSON null at index k.
WithNullAt(doc, k) ==
    [doc EXCEPT !.hourly = [j \in 1..Len(doc.hourly) |->
                               IF j = k + 1 THEN Null ELSE doc.hourly[j]]]

Stretch(a, l) == a .. (a + l - 1)

\* Long forecasts with up to two calm stretches: the calm-period scan.
CalmDocuments ==
    { Document(n, z[1], z[2], 754, Stretch(a, l) \cup Stretch(a + l + 1, m), 3) :
        n \in {12, 36, MaxHourly},
        z \in ((0..23) \X {0 - 21600}) \cup ({2, 15} \X {19800}),
        a \in {0, 1, 2, 10, 27, 28, 29},
        l \in {0, 7, 8, 9, 16, 17, 24, 25},
        m \in {0, 8} }

\* Short forecasts over every score profile: the scores and the chart series.
ScoreDocuments ==
    { Document(n, h0, off, cm, calm, p) :
        n \in 0..MaxShort, h0 \in {5, 23}, off \in Offsets, cm \in {0, 754},
        calm \in {{}, {1, 3}, {0, 2}}, p \in 0..MaxProfile }

\* Documents some step of the handler fails on, and two it does not fail on.
BrokenDocuments ==
    LET doc == Document(12, 15, 0 - 21600, 754, Stretch(2, 9), 3)
    IN  { Null, ErrorBody,
          [current |-> doc.current, timezone_offset |-> doc.timezone_offset],
          [hourly |-> doc.hourly, timezone_offset |-> doc.timezone_offset],
          WithNullAt(doc, 0), WithNullAt(doc, 2), WithNullAt(doc, 5),
          WithNullAt(doc, 10), WithNullAt(doc, 11), doc }

(***************************************************************************)
(* Initial states                                                          *)
(***************************************************************************)
SweepIdle ==
    /\ mph = 0 /\ bft = convertMphToBft(0)
    /\ temp = 0 /\ tempScore = getTempScore(0)

HandlerStart ==
    /\ now = (BaseDt + 3600 * 30 + 125) * 1000
    /\ pc = "start"
    /\ fetchCount = 0
    /\ data = <<>>
    /\ currentBft = 0 /\ currentOverallScore = 0
    /\ currentWindScore = 0 /\ currentTempScore = 0
    /\ overallData = <<>> /\ windData = <<>> /\ tempData = <<>>
    /\ calmStart = <<>> /\ calmCandidate = <<>> /\ calmCount = 0
    /\ i = 0
    /\ tested = {}
    /\ res = <<>>

Init ==
    /\ \/ /\ apiKey = TRUE
          /\ upstream = "resolves"
          /\ payload \in CalmDocuments \cup ScoreDocuments
       \/ /\ apiKey \in BOOLEAN
          /\ upstream \in {"resolves", "fetchRejects", "jsonRejects"}
          /\ payload \in BrokenDocuments
    /\ HandlerStart
    /\ SweepIdle

(***************************************************************************)
(* The handler                                                             *)
(***************************************************************************)
hoursToDisplay == 3

forecastLimit == Min(36, Len(data.hourly))

\* the index of a record of data.hourly (the dt values are distinct)
IndexOf(hourData) ==
    CHOOSE k \in 0..(Len(data.hourly) - 1) :
        /\ ~IsNull(data.hourly[k + 1])
        /\ data.hourly[k + 1].dt = hourData.dt

\* the key check left out
MissingKeyUnchecked == FALSE

\* if (!apiKey)
MissingKey == ~apiKey

\* the window closed at 9pm instead of open
InWindowClosed(candidateHour) == candidateHour >= 8 /\ candidateHour <= 21

\* candidateHour >= 8 && candidateHour < 21
InWindow(candidateHour) == candidateHour >= 8 /\ candidateHour < 21

\* the hour that completed the rejected run retried as the start of a new run
RestartOnMiss == calmCount' = 1 /\ calmCandidate' = <<data.hourly[i + 1]>>

\* the else branch of the window check
ResetOnMiss == calmCount' = 0 /\ calmCandidate' = <<>>

\* the catch block answering without status(500)
CatchErrorOk ==
    /\ res' = [status |-> 200, body |-> [error |-> "Failed to fetch weather data"]]
    /\ pc' = "done"

\* catch (error) { ... res.status(500).json(...) }
CatchError ==
    /\ res' = [status |-> 500, body |-> [error |-> "Failed to fetch weather data"]]
    /\ pc' = "done"

\* Entry: the key check and, with a key, the call of fetch.
HandlerEntry ==
    /\ pc = "start"
    /\ IF MissingKey
       THEN /\ res' = [status |-> 500, body |-> [error |-> "Missing API Key"]]
            /\ pc' = "done"
            /\ UNCHANGED fetchCount
       ELSE /\ fetchCount' = fetchCount + 1
            /\ pc' = "fetch"
            /\ UNCHANGED res
    /\ UNCHANGED <<apiKey, upstream, payload, now, data, currentBft, currentOverallScore,
                   currentWindScore, currentTempScore, overallData, windData, tempData,
                   calmStart, calmCandidate, calmCount, i, tested, svars>>

FetchRejects ==
    /\ pc = "fetch"
    /\ upstream = "fetchRejects"
    /\ CatchError
    /\ UNCHANGED <<apiKey, upstream, payload, now, fetchCount, data, currentBft,
                   currentOverallScore, currentWindScore, currentTempScore, overallData,
                   windData, tempData, calmStart, calmCandidate, calmCount, i, tested,
                   svars>>

FetchResolves ==
    /\ pc = "fetch"
    /\ upstream # "fetchRejects"
    /\ pc' = "json"
    /\ UNCHANGED <<apiKey, upstream, payload, now, fetchCount, data, currentBft,
                   currentOverallScore, currentWindScore, currentTempScore, overallData,
                   windData, tempData, calmStart, calmCandidate, calmCount, i, tested,
                   res, svars>>

JsonRejects ==
    /\ pc = "json"
    /\ upstream = "jsonRejects"
    /\ CatchError
    /\ UNCHANGED <<apiKey, upstream, payload, now, fetchCount, data, currentBft,
                   currentOverallScore, currentWindScore, currentTempScore, overallData,
                   windData, tempData, calmStart, calmCandidate, calmCount, i, tested,
                   svars>>

JsonResolves ==
    /\ pc = "json"
    /\ upstream = "resolves"
    /\ data' = payload
    /\ pc' = "current"
    /\ UNCHANGED <<apiKey, upstream, payload, now, fetchCount, currentBft,
                   currentOverallScore, currentWindScore, currentTempScore, overallData,
                   windData, tempData, calmStart, calmCandidate, calmCount, i, tested,
                   res, svars>>

\* Process Current Conditions; reading data.current.feels_like throws when data
\* is null or has no current.
ProcessCurrent ==
    /\ pc = "current"
    /\ IF IsNull(data) \/ "current" \notin DOMAIN data
       THEN /\ CatchError
            /\ UNCHANGED <<currentBft, currentOverallScore, currentWindScore,
                           currentTempScore>>
       ELSE LET currentFeelsLike == data.current.feels_like
                currentWindMph == data.current.wind_speed
                b == convertMphToBft(currentWindMph)
            IN  /\ currentBft' = b
                /\ currentOverallScore' = getOverallScore(currentFeelsLike, b)
                /\ currentWindScore' = getWindScore(b)
                /\ currentTempScore' = getTempScore(currentFeelsLike)
                /\ pc' = "chart"
                /\ UNCHANGED res
    /\ UNCHANGED <<apiKey, upstream, payload, now, fetchCount, data, overallData,
                   windData, tempData, calmStart, calmCandidate, calmCount, i, tested,
                   svars>>

\* the point pushed for one hourly record, by score kind
ChartPoint(hourData, kind) ==
    LET timestamp == (hourData.dt + data.timezone_offset) * 1000
        b == convertMphToBft(hourData.wind_speed)
    IN  << timestamp,
           CASE kind = "temp" -> getTempScore(hourData.feels_like)
             [] kind = "wind" -> getWindScore(b)
             [] OTHER -> getOverallScore(hourData.feels_like, b) >>

\* the slice taken from index 0
ChartSliceFromZero == SubSeq(data.hourly, 1, Min(hoursToDisplay, Len(data.hourly)))

\* data.hourly.slice(1, hoursToDisplay + 1)
ChartSlice == SubSeq(data.hourly, 2, Min(hoursToDisplay + 1, Len(data.hourly)))

\* Build Chart Data Arrays, then the scan's initialisation.  The forEach pushes
\* the points of the records before a null record and throws on the null one;
\* data.hourly.slice throws when there is no hourly.
BuildChart ==
    /\ pc = "chart"
    /\ LET currentTimestamp ==
               setMinutesZero((data.current.dt + data.timezone_offset) * 1000)
           slice == IF "hourly" \in DOMAIN data THEN ChartSlice ELSE <<>>
           nulls == {k \in 1..Len(slice) : IsNull(slice[k])}
           done == IF nulls = {} THEN Len(slice)
                   ELSE (CHOOSE k \in nulls : \A j \in nulls : k <= j) - 1
       IN  /\ overallData' = <<(<<currentTimestamp, currentOverallScore>>)>>
                               \o [k \in 1..done |-> ChartPoint(slice[k], "overall")]
           /\ windData' = <<(<<currentTimestamp, currentWindScore>>)>>
                               \o [k \in 1..done |-> ChartPoint(slice[k], "wind")]
           /\ tempData' = <<(<<currentTimestamp, currentTempScore>>)>>
                               \o [k \in 1..done |-> ChartPoint(slice[k], "temp")]
           /\ IF "hourly" \notin DOMAIN data \/ nulls # {}
              THEN CatchError
              ELSE pc' = "scan" /\ UNCHANGED res
    /\ calmStart' = <<>>
    /\ calmCandidate' = <<>>
    /\ calmCount' = 0
    /\ i' = 0
    /\ UNCHANGED <<apiKey, upstream, payload, now, fetchCount, data, currentBft,
                   currentOverallScore, currentWindScore, currentTempScore, tested,
                   svars>>

\* One iteration of the calm-period loop.
ScanStep ==
    /\ pc = "scan"
    /\ i < forecastLimit
    /\ LET hourData == data.hourly[i + 1]
       IN  IF IsNull(hourData)
           THEN /\ CatchError
                /\ UNCHANGED <<calmStart, calmCandidate, calmCount, i, tested>>
           ELSE IF convertMphToBft(hourData.wind_speed) < 3
           THEN LET candidate == IF calmCount = 0 THEN <<hourData>> ELSE calmCandidate
                    count == calmCount + 1
                    candidateTime == (candidate[1].dt + data.timezone_offset) * 1000
                    candidateHour == getHours(candidateTime)
                IN  IF count = 8
                    THEN /\ tested' = tested \cup {IndexOf(candidate[1])}
                         /\ IF InWindow(candidateHour)
                            THEN /\ calmStart' = <<candidate[1].dt>>
                                 /\ calmCandidate' = candidate
                                 /\ calmCount' = count
                                 /\ pc' = "format"
                                 /\ UNCHANGED <<i, res>>
                            ELSE /\ ResetOnMiss
                                 /\ i' = i + 1
                                 /\ UNCHANGED <<calmStart, pc, res>>
                    ELSE /\ calmCandidate' = candidate
                         /\ calmCount' = count
                         /\ i' = i + 1
                         /\ UNCHANGED <<calmStart, tested, pc, res>>
           ELSE /\ calmCount' = 0
                /\ calmCandidate' = <<>>
                /\ i' = i + 1
                /\ UNCHANGED <<calmStart, tested, pc, res>>
    /\ UNCHANGED <<apiKey, upstream, payload, now, fetchCount, data, currentBft,
                   currentOverallScore, currentWindScore, currentTempScore, overallData,
                   windData, tempData, svars>>

\* The loop condition fails: the horizon is exhausted.
ScanExit ==
    /\ pc = "scan"
    /\ i >= forecastLimit
    /\ pc' = "format"
    /\ UNCHANGED <<apiKey, upstream, payload, now, fetchCount, data, currentBft,
                   currentOverallScore, currentWindScore, currentTempScore, overallData,
                   windData, tempData, calmStart, calmCandidate, calmCount, i, tested,
                   res, svars>>

calmPeriodText ==
    IF calmStart # <<>>
    THEN formatTime((calmStart[1] + data.timezone_offset) * 1000)
    ELSE "--"

output ==
    [current |->
        [feels_like |-> RoundDeg(data.current.feels_like),
         wind_speed_mph |-> data.current.wind_speed,
         wind_speed_bft |-> currentBft,
         overall_score |-> currentOverallScore,
         wind_score |-> currentWindScore,
         temp_score |-> currentTempScore,
         updated_at |-> formatCentralTime(now)],
     chart_data |-> [overall |-> overallData, wind |-> windData, temp |-> tempData],
     calm_period |-> calmPeriodText]

\* The formatting, the response object and res.status(200).json(output).
Respond ==
    /\ pc = "format"
    /\ res' = [status |-> 200, body |-> output]
    /\ pc' = "done"
    /\ UNCHANGED <<apiKey, upstream, payload, now, fetchCount, data, currentBft,
                   currentOverallScore, currentWindScore, currentTempScore, overallData,
                   windData, tempData, calmStart, calmCandidate, calmCount, i, tested,
                   svars>>

Next ==
    \/ HandlerEntry
    \/ FetchRejects
    \/ FetchResolves
    \/ JsonRejects
    \/ JsonResolves
    \/ ProcessCurrent
    \/ BuildChart
    \/ ScanStep
    \/ ScanExit
    \/ Respond

Spec == Init /\ [][Next]_vars

(***************************************************************************)
(* The sweeps: the pure functions applied to every input of a range        *)
(***************************************************************************)
MaxMph == 700        \* the wind sweep ends at 70.0 mph
MaxTemp == 1100      \* the temperature sweep ends at 110.0 degrees
MinTemp == 0 - 200   \* and starts at -20.0 degrees

HandlerIdle ==
    /\ apiKey = TRUE
    /\ upstream = "resolves"
    /\ payload = Null
    /\ HandlerStart

Gust ==
    /\ mph < MaxMph
    /\ mph' = mph + 1
    /\ bft' = convertMphToBft(mph')
    /\ UNCHANGED <<hvars, temp, tempScore>>

Warm ==
    /\ temp < MaxTemp
    /\ temp' = temp + 1
    /\ tempScore' = getTempScore(temp')
    /\ UNCHANGED <<hvars, mph, bft>>

InitBft == HandlerIdle /\ SweepIdle
SpecBft == InitBft /\ [][Gust]_vars

InitTemp ==
    /\ HandlerIdle
    /\ mph = 0 /\ bft = convertMphToBft(0)
    /\ temp = MinTemp /\ tempScore = getTempScore(MinTemp)
SpecTemp == InitTemp /\ [][Warm]_vars

(***************************************************************************)
(* Properties of the wind-speed classifier and the temperature scorer      *)
(***************************************************************************)
\* the integer nearest to m/50, halves upwards
NearestFifth(m) == CHOOSE r \in 0..(m \div 50 + 1) : 50 * r - 25 <= m /\ m < 50 * r + 25

BftTable(m) ==
    CASE m \in 0..9 -> 0
      [] m \in 10..39 -> 1
      [] m \in 40..79 -> 2
      [] m \in 80..129 -> 3
      [] m \in 130..179 -> 4
      [] m \in 180..239 -> 5
      [] m \in 240..309 -> 6
      [] m \in 310..379 -> 7
      [] m \in 380..459 -> 8
      [] m >= 460 -> NearestFifth(m)

\* C6: convertMphToBft gives every non-negative speed the class of the
\* threshold table ([0,1)->0 ... [38,46)->8, round(speed/5) from 46 mph on),
\* and the class never decreases as the speed grows, the 46 mph boundary
\* included.
C6_ClassTableMonotone ==
    /\ [](bft = BftTable(mph))
    /\ [][mph' > mph => bft' >= bft]_vars

C6_Witness == mph = 460 /\ bft = 9

InBand(score, t) ==
    CASE score = 5 -> 750 <= t /\ t <= 850
      [] score = 4 -> (700 <= t /\ t < 750) \/ (850 < t /\ t <= 900)
      [] score = 3 -> (650 <= t /\ t < 700) \/ (900 < t /\ t <= 950)
      [] score = 2 -> (600 <= t /\ t < 650) \/ (950 < t /\ t <= 1000)
      [] score = 1 -> t < 600 \/ t > 1000

\* C7: getTempScore returns the score of the one band the temperature lies
\* in: 5 on [75,85], 4 on [70,75) and (85,90], 3 on [65,70) and (90,95],
\* 2 on [60,65) and (95,100], 1 below 60 and above 100; exactly one band
\* holds and the score is in 1..5.
C7_TempBands ==
    /\ tempScore \in 1..5
    /\ {sc \in 1..5 : InBand(sc, temp)} = {tempScore}

C7_Witness == temp = 851 /\ tempScore = 4

(***************************************************************************)
(* Properties of the handler's outcomes                                    *)
(***************************************************************************)
MissingKeyResponse == [status |-> 500, body |-> [error |-> "Missing API Key"]]
FailedResponse == [status |-> 500, body |-> [error |-> "Failed to fetch weather data"]]

\* C3: without an API key the handler answers 500 { error: "Missing API Key" }
\* and never calls fetch: the handler is at its entry or done, and the call
\* counter stays 0.
C3_MissingKeyNoFetch ==
    ~apiKey =>
        /\ fetchCount = 0
        /\ pc \in {"start", "done"}
        /\ pc = "done" => res = MissingKeyResponse

C3_Witness == ~apiKey /\ pc = "done" /\ upstream = "resolves" /\ ~IsNull(payload)

HasField(v, f) == ~IsNull(v) /\ f \in DOMAIN v

\* a record of the hourly sequence the handler reads whatever the winds are
AlwaysRead(k) ==
    /\ HasField(payload, "hourly")
    /\ k < Len(payload.hourly)
    /\ k \in 0..hoursToDisplay

\* a failure of the fetch, of the parse, or of a step on a missing field
StepFails ==
    \/ upstream # "resolves"
    \/ ~HasField(payload, "current")
    \/ ~HasField(payload, "hourly")
    \/ \E k \in 0..hoursToDisplay : AlwaysRead(k) /\ IsNull(payload.hourly[k + 1])

CompletePayload(body) ==
    /\ DOMAIN body = {"current", "chart_data", "calm_period"}
    /\ DOMAIN body.current = {"feels_like", "wind_speed_mph", "wind_speed_bft",
                              "overall_score", "wind_score", "temp_score", "updated_at"}
    /\ DOMAIN body.chart_data = {"overall", "wind", "temp"}
    /\ Len(body.chart_data.overall) >= 1
    /\ Len(body.chart_data.wind) >= 1
    /\ Len(body.chart_data.temp) >= 1
    /\ body.calm_period # ""

\* C4: with the API key present the handler answers once, with 200 and the
\* complete payload or with 500 { error: "Failed to fetch weather data" };
\* a failure of the fetch, of the parse or of a step over a missing field
\* gives the 500, and nothing is sent before the handler is done.
C4_TwoOutcomes ==
    apiKey =>
        /\ pc # "done" => res = <<>>
        /\ pc = "done" =>
              /\ \/ res.status = 200 /\ CompletePayload(res.body)
                 \/ res = FailedResponse
              /\ StepFails => res = FailedResponse

\* the failure comes after the chart series were built
C4_Witness ==
    /\ apiKey
    /\ pc = "done"
    /\ res = FailedResponse
    /\ Len(overallData) = 4

Answered200 == pc = "done" /\ res.status = 200

(***************************************************************************)
(* Properties of the calm-period finder                                    *)
(***************************************************************************)
IsCalm(k) ==
    /\ ~IsNull(data.hourly[k + 1])
    /\ convertMphToBft(data.hourly[k + 1].wind_speed) < 3

\* the wall-clock hour at the location: the epoch second shifted by
\* timezone_offset, read as UTC
LocalHour(k) == ((data.hourly[k + 1].dt + data.timezone_offset) \div 3600) % 24

Qualifies(s) ==
    /\ s + 7 < Min(36, Len(data.hourly))
    /\ \A k \in s..(s + 7) : IsCalm(k)
    /\ LocalHour(s) >= 8 /\ LocalHour(s) < 21

Starts == {s \in 0..(Len(data.hourly) - 1) : Qualifies(s)}

\* C1: the finder reports the first qualifying run: the dt of the least
\* index s with s+7 < min(36, length), hours s..s+7 all of class < 3 and the
\* local hour of s in [8,21); and calm_period is "--" only when there is no
\* such index.
C1_FirstQualifyingRun ==
    Answered200 =>
        IF Starts = {}
        THEN calmStart = <<>> /\ res.body.calm_period = "--"
        ELSE LET s == CHOOSE x \in Starts : \A y \in Starts : x <= y
             IN  /\ calmStart = <<data.hourly[s + 1].dt>>
                 /\ res.body.calm_period # "--"

\* C2: a reported start is the dt of an index s with s+7 < min(36, length),
\* hours s..s+7 all of class < 3 and the local hour of s in [8,21) (so never
\* a run starting at local hour 22); calm_period is "--" exactly when
\* nothing is reported, and else the 12-hour local time of the start.
C2_ReportedRunQualifies ==
    /\ calmStart # <<>> =>
          \E s \in Starts : data.hourly[s + 1].dt = calmStart[1]
    /\ Answered200 =>
          /\ (res.body.calm_period = "--") <=> (calmStart = <<>>)
          /\ calmStart # <<>> =>
                \E s \in Starts :
                    /\ data.hourly[s + 1].dt = calmStart[1]
                    /\ LET h == LocalHour(s)
                           m == ((calmStart[1] + data.timezone_offset) \div 60) % 60
                           h12 == IF h % 12 = 0 THEN 12 ELSE h % 12
                       IN  res.body.calm_period =
                              ToString(h12) \o ":" \o (IF m < 10 THEN "0" ELSE "")
                                 \o ToString(m) \o (IF h >= 12 THEN "pm" ELSE "am")

\* a run starting at local hour 22 was rejected and a later one reported
C2_Witness ==
    /\ Answered200
    /\ calmStart # <<>>
    /\ \E k \in tested : LocalHour(k) = 22

\* the first index of the unbroken calm stretch index c lies in
StretchStart(c) == CHOOSE s \in 0..c :
    /\ \A k \in s..c : IsCalm(k)
    /\ s = 0 \/ ~IsCalm(s - 1)

\* C10: when the run counter reaches 8 at index i and the candidate's local
\* hour is outside [8,21), the counter becomes 0, the candidate null and the
\* scan goes on at i+1; the window is checked only when a run reaches its
\* 8th hour, so inside a calm stretch beginning at s only the starts s, s+8,
\* s+16, ... are ever tested.
C10_ResetPolicy ==
    /\ [][(/\ pc = "scan" /\ i < forecastLimit /\ IsCalm(i) /\ calmCount = 7
           /\ ~(LocalHour(i - 7) >= 8 /\ LocalHour(i - 7) < 21))
          => (/\ calmCount' = 0 /\ calmCandidate' = <<>> /\ calmStart' = <<>>
              /\ i' = i + 1 /\ pc' = "scan")]_vars
    /\ [][tested' # tested
          => (/\ calmCount = 7 /\ IsCalm(i) /\ tested' = tested \cup {i - 7})]_vars
    /\ [](\A c \in tested : (c - StretchStart(c)) % 8 = 0)

\* two starts of one calm stretch, eight hours apart, were tested
C10_Witness ==
    /\ pc = "done"
    /\ \E c \in tested :
          /\ c + 8 \in tested
          /\ StretchStart(c + 8) = StretchStart(c)

(***************************************************************************)
(* Properties of the scores and the chart series in the response           *)
(***************************************************************************)
Chart == res.body.chart_data

\* the local timestamp of the hourly record at index k
LocalMillis(k) == (data.hourly[k + 1].dt + data.timezone_offset) * 1000

\* C5: in the response the overall score is the minimum of the temperature
\* and wind scores of the same record: for the current observation, and at
\* every position of the series, whose three points carry one timestamp and
\* the scores of the one hourly record with that timestamp.
C5_OverallIsMin ==
    Answered200 =>
        /\ res.body.current.temp_score = getTempScore(data.current.feels_like)
        /\ res.body.current.wind_score =
              getWindScore(convertMphToBft(data.current.wind_speed))
        /\ res.body.current.overall_score =
              Min(res.body.current.temp_score, res.body.current.wind_score)
        /\ Len(Chart.wind) = Len(Chart.overall)
        /\ Len(Chart.temp) = Len(Chart.overall)
        /\ Chart.temp[1][2] = res.body.current.temp_score
        /\ Chart.wind[1][2] = res.body.current.wind_score
        /\ \A k \in 1..Len(Chart.overall) :
              /\ Chart.wind[k][1] = Chart.overall[k][1]
              /\ Chart.temp[k][1] = Chart.overall[k][1]
              /\ Chart.overall[k][2] = Min(Chart.temp[k][2], Chart.wind[k][2])
              /\ k >= 2 =>
                    /\ Chart.overall[k][1] = LocalMillis(k - 1)
                    /\ Chart.temp[k][2] = getTempScore(data.hourly[k].feels_like)
                    /\ Chart.wind[k][2] =
                          getWindScore(convertMphToBft(data.hourly[k].wind_speed))

\* the wind score decides at one position and the temperature score at another
C5_Witness ==
    /\ Answered200
    /\ \E k \in 1..Len(Chart.overall) : Chart.wind[k][2] < Chart.temp[k][2]
    /\ \E k \in 1..Len(Chart.overall) : Chart.temp[k][2] < Chart.wind[k][2]

WindTable(c) ==
    CASE c < 3 -> 5
      [] c = 3 -> 3
      [] c = 4 -> 2
      [] c > 4 -> 1

\* C8: every wind score of a response is the table's score of the record's
\* wind-force class (5 below class 3, 3 at 3, 2 at 4, 1 above 4, the classes
\* above 8 included), so it is in {1,2,3,5} and never 4.
C8_WindScoreTable ==
    Answered200 =>
        /\ res.body.current.wind_speed_bft = BftTable(data.current.wind_speed)
        /\ res.body.current.wind_score = WindTable(res.body.current.wind_speed_bft)
        /\ \A k \in 1..Len(Chart.wind) :
              /\ Chart.wind[k][2] \in {1, 2, 3, 5}
              /\ k >= 2 => Chart.wind[k][2] = WindTable(BftTable(data.hourly[k].wind_speed))

\* a class above 8 scored 1, next to a class 3 scored 3
C8_Witness ==
    /\ Answered200
    /\ res.body.current.wind_speed_bft > 8
    /\ res.body.current.wind_score = 1
    /\ \E k \in 2..Len(Chart.wind) :
          BftTable(data.hourly[k].wind_speed) = 3 /\ Chart.wind[k][2] = 3

\* the number of forecast hours processed: the records after index 0, at most 3
ForecastHours ==
    IF Len(data.hourly) - 1 < 0 THEN 0 ELSE Min(hoursToDisplay, Len(data.hourly) - 1)

====
